---- MODULE Spec2Model ----
(***************************************************************************)
(* Peer-configuration synchronisation of the netmaker control plane:       *)
(*   - the internet-gateway HTTP handlers (createInternetGw,               *)
(*     updateInternetGw, deleteInternetGw) running concurrently against    *)
(*     the node registry, with their detached goroutines;                  *)
(*   - the MQ publishers (PublishPeerUpdate, PublishDeletedNodePeerUpdate, *)
(*     PublishDeletedClientPeerUpdate, NodeUpdate,                         *)
(*     PublishMqUpdatesForDeletedNode);                                    *)
(*   - the keepalive scheduler tick (sendPeers);                           *)
(*   - the DNS records of the external clients (getExtClientDNS).          *)
(***************************************************************************)
EXTENDS Integers, Sequences, FiniteSets, TLC

VARIABLES
    nodes,      \* registry: node id -> stored node record
    failover,   \* registry: network id -> active failover peer ("none" if none)
    isPro,      \* servercfg.IsPro
    pc,         \* per request handler: position in the handler
    req,        \* per request handler: the request being served
    orig,       \* per request handler: the node as returned by ValidateParams
    node,       \* per request handler: the handler's local variable `node`
    resp,       \* per request handler: the HTTP response written
    wrote,      \* per request handler: whether it has written the node registry
    io,         \* history, per request handler: how its registry accesses ended
    tasks,      \* detached goroutines started by the handlers, not yet finished
    published,  \* history: the runs of PublishPeerUpdate started by goroutines
    snap,       \* history: the node registry when the current round of requests began
    hostsReg,   \* registry: the ids of the stored hosts
    mqBackend,  \* servercfg.IsMessageQueueBackend()
    dnsMode,    \* servercfg.IsDNSMode()
    mpc,        \* publisher goroutine: position
    mop,        \* publisher goroutine: the call it serves and its arguments
    mnode,      \* PublishMqUpdatesForDeletedNode: its by-value parameter `node`
    mcaller,    \* the caller's variable that was passed as `node`
    mhosts,     \* broadcast: `hosts`, the result of logic.GetAllHosts
    mall,       \* broadcast: `allNodes`, the result of logic.GetAllNodes
    mi,         \* broadcast: the index of the range loop over hosts, 0 before the loop
    merr,       \* broadcast: the variable `err`
    mret,       \* broadcast: the value returned, "none" until it returns
    outbox,     \* history: the calls of publish and of PublishSingleHostPeerUpdate
    trail,      \* history: the steps PublishMqUpdatesForDeletedNode has run
    peer_force_send, \* the scheduler's tick counter
    overlapped, \* history: two invocations of sendPeers have run at the same time
    spc,        \* per sendPeers invocation: position
    sloc,       \* per sendPeers invocation: its local variables
    extclients, \* registry: the stored external clients, in the registry's order
    dpc,        \* getExtClientDNS: position
    dnet,       \* getExtClientDNS: its parameter `network`
    dclients,   \* getExtClientDNS: `clients`
    di,         \* getExtClientDNS: the index of the range loop over clients
    dns,        \* getExtClientDNS: the variable `dns`
    alldns      \* getExtClientDNS: `alldns`, the slice it returns

gwvars == <<failover, isPro, pc, req, orig, node, resp, wrote, io, tasks,
            published, snap>>

mqvars == <<hostsReg, mqBackend, dnsMode, mpc, mop, mnode, mcaller, mhosts, mall,
            mi,
            merr, mret, outbox, trail>>

schedvars == <<peer_force_send, overlapped, spc, sloc>>

dnsvars == <<extclients, dpc, dnet, dclients, di, dns, alldns>>

vars == <<nodes, gwvars, mqvars, schedvars, dnsvars>>

\* What the steps of each part leave alone.
GwFrame == UNCHANGED <<mqvars, schedvars, dnsvars>>

MqFrame == UNCHANGED <<gwvars, schedvars, dnsvars>>

SchedFrame ==
    UNCHANGED <<gwvars, mqBackend, dnsMode, mpc, mop, mnode, mcaller, mhosts,
                mall, mi, merr, mret, trail, dnsvars>>

DnsFrame == UNCHANGED <<nodes, gwvars, mqvars, schedvars>>

-----------------------------------------------------------------------------
(* The registry's population.                                              *)

Procs   == {"r1", "r2"}
NodeIds == {"n1", "n2", "n3", "n4"}
HostIds == {"h1", "h2", "h3"}
Nets    == {"net1", "net2"}

\* The ids of the external clients.
ClientIds == {"c1", "c2"}

\* Node.HostID and Node.Network: n1, n3 and n4 share net1 on three hosts;
\* h2 also has n2 in net2.
HostOf(n) ==
    CASE n = "n1" -> "h1" [] n = "n2" -> "h2" [] n = "n3" -> "h2"
      [] n = "n4" -> "h3"

NetOf(n) == IF n = "n2" THEN "net2" ELSE "net1"

\* Host.OS
OSOf(h) ==
    CASE h = "h1" -> "linux" [] h = "h2" -> "windows" [] h = "h3" -> "iot"

\* The nodes the gateway requests of the model address.
GwNodes == {"n1", "n2"}

\* models.InetNodeReq as decoded from the body: two distinct well-formed
\* parameter sets, a body that does not decode, and one the validator rejects.
Bodies == {"p1", "p2", "malformed", "invalid"}

\* The zero value of models.Node.
NoNode ==
    [present |-> FALSE, isInetGw |-> FALSE, inetReq |-> "none",
     isGw |-> FALSE, ingressDNS |-> "", pendingDelete |-> FALSE,
     action |-> "none"]

\* No registry access of the handler has failed.
NoIO == [read |-> TRUE, host |-> TRUE, upsert |-> TRUE]

NoReq  == [kind |-> "none", id |-> "n1", body |-> "p1"]
NoResp == [status |-> 0, body |-> "none", node |-> NoNode]

\* logic.ReturnErrorResponse(w, r, logic.FormatError(err, kind)): the status
\* of the error kind and the error's message.
ErrResp(code, msg) == [status |-> code, body |-> msg, node |-> NoNode]
NodeResp(nd)   == [status |-> 200, body |-> "node", node |-> nd]
AlreadyResp    == [status |-> 200, body |-> "already", node |-> NoNode]

-----------------------------------------------------------------------------
(* logic.* helpers the handlers call.                                      *)

\* logic.ValidateParams: the stored node, or an error when the node is not
\* in the registry or the registry read fails.
ValidateParams(stored, readOk) ==
    IF readOk /\ stored.present
    THEN [ok |-> TRUE, node |-> stored]
    ELSE [ok |-> FALSE, node |-> NoNode]

\* logic.ValidateInetGwReq: the external validator's verdict on the request.
ValidateInetGwReq(nd, body, update) == body # "invalid"

\* logic.SetInternetGw: sets the gateway attributes on the node.
SetInternetGw(nd, body) == [nd EXCEPT !.isInetGw = TRUE, !.inetReq = body]

\* logic.UnsetInternetGw: clears the gateway attributes of the node.
UnsetInternetGw(nd) == [nd EXCEPT !.isInetGw = FALSE, !.inetReq = "none"]

\* logic.FailOverExists
FailOverExists(net) == failover[net] # "none"

\* logic.ResetFailedOverPeer: clears the network's active failover peer.
ResetFailedOverPeer(net) == [failover EXCEPT ![net] = "none"]

\* logic.UpsertNode: stores the node under its id.
UpsertNode(id, nd) == [nodes EXCEPT ![id] = nd]

-----------------------------------------------------------------------------
(* Request handlers.  Each handler runs in a goroutine of its own; a step  *)
(* of the model is one access to shared state (a registry read or write,   *)
(* the response, the start of a goroutine) with the local computation that *)
(* follows it.                                                             *)

Requests ==
    [kind : {"promote", "update"}, id : GwNodes, body : Bodies]
      \cup [kind : {"demote"}, id : GwNodes, body : {"p1"}]

Finish(p, r) ==
    /\ resp' = [resp EXCEPT ![p] = r]
    /\ pc' = [pc EXCEPT ![p] = "done"]

\* A goroutine started by handler p: `go func(){ResetFailedOverPeer;
\* PublishPeerUpdate}()` (via "failover") or `go mq.PublishPeerUpdate` after
\* the response (via "post").
Task(p, via, stage) ==
    [origin |-> p, via |-> via, stage |-> stage, net |-> NetOf(req[p].id)]

\* A client sends a request; its handler starts.
Begin(p) ==
    /\ pc[p] = "idle"
    /\ \E r \in Requests : req' = [req EXCEPT ![p] = r]
    /\ pc' = [pc EXCEPT ![p] = "read"]
    /\ UNCHANGED <<nodes, failover, isPro, io, orig, node, resp, wrote, tasks,
                   published, snap>>
    /\ GwFrame

\* CreateChecks without `if host.OS != models.OS_Types.Linux`.
CreateChecksNoOSGuard(nd, id, body, hostOk) ==
    IF nd.isInetGw THEN "already"
    ELSE IF body = "malformed" THEN "decode"
    ELSE IF ~hostOk THEN "host"
    ELSE IF ~ValidateInetGwReq(nd, body, FALSE) THEN "invalid"
    ELSE "ok"

\* CreateChecks without `if node.IsInternetGateway`.
CreateChecksNoShortCircuit(nd, id, body, hostOk) ==
    IF body = "malformed" THEN "decode"
    ELSE IF ~hostOk THEN "host"
    ELSE IF OSOf(HostOf(id)) # "linux" THEN "notlinux"
    ELSE IF ~ValidateInetGwReq(nd, body, FALSE) THEN "invalid"
    ELSE "ok"

\* The outcome of createInternetGw's checks between ValidateParams and
\* SetInternetGw.
CreateChecks(nd, id, body, hostOk) ==
    IF nd.isInetGw THEN "already"
    ELSE IF body = "malformed" THEN "decode"
    ELSE IF ~hostOk THEN "host"
    ELSE IF OSOf(HostOf(id)) # "linux" THEN "notlinux"
    ELSE IF ~ValidateInetGwReq(nd, body, FALSE) THEN "invalid"
    ELSE "ok"

\* The response of a failed check: FormatError(err, "internal") for the host
\* lookup, FormatError(err, "badrequest") for the others.
CheckResp(c) ==
    CASE c = "already" -> AlreadyResp
      [] c = "host"    -> ErrResp(500, c)
      [] OTHER         -> ErrResp(400, c)

\* `if node.IsGw && node.IngressDNS == "" { node.IngressDNS = "1.1.1.1" }`
IngressDefault(nd) ==
    IF nd.isGw /\ nd.ingressDNS = "" THEN [nd EXCEPT !.ingressDNS = "1.1.1.1"]
    ELSE nd

\* createInternetGw, from ValidateParams to SetInternetGw.
CreateRead(p) ==
    /\ pc[p] = "read" /\ req[p].kind = "promote"
    /\ \E readOk \in BOOLEAN, hostOk \in BOOLEAN :
         LET v == ValidateParams(nodes[req[p].id], readOk)
             c == CreateChecks(v.node, req[p].id, req[p].body, hostOk)
         IN  /\ io' = [io EXCEPT ![p].read = readOk, ![p].host = hostOk]
             /\ IF ~v.ok
                THEN Finish(p, ErrResp(400, "params")) /\ UNCHANGED <<orig, node>>
                ELSE /\ orig' = [orig EXCEPT ![p] = v.node]
                     /\ IF c = "ok"
                        THEN /\ node' = [node EXCEPT
                                           ![p] = SetInternetGw(v.node, req[p].body)]
                             /\ pc' = [pc EXCEPT ![p] = "failover"]
                             /\ UNCHANGED resp
                        ELSE /\ node' = [node EXCEPT ![p] = v.node]
                             /\ Finish(p, CheckResp(c))
    /\ UNCHANGED <<nodes, failover, isPro, req, wrote, tasks, published, snap>>
    /\ GwFrame

\* createInternetGw: the failover check, which starts the goroutine that
\* resets the failover peer, and the ingress DNS default.
CreateFailover(p) ==
    /\ pc[p] = "failover"
    /\ tasks' = IF isPro /\ FailOverExists(NetOf(req[p].id))
                THEN tasks \cup {Task(p, "failover", "reset")}
                ELSE tasks
    /\ node' = [node EXCEPT ![p] = IngressDefault(node[p])]
    /\ pc' = [pc EXCEPT ![p] = "upsert"]
    /\ UNCHANGED <<nodes, failover, isPro, io, req, orig, resp, wrote, published,
                   snap>>
    /\ GwFrame

\* Upsert with `go mq.PublishPeerUpdate` moved before the response.
UpsertDispatchingEarly(p, nd) ==
    /\ pc[p] = "upsert"
    /\ \E ok \in BOOLEAN :
         /\ io' = [io EXCEPT ![p].upsert = ok]
         /\ IF ok
            THEN /\ nodes' = UpsertNode(req[p].id, nd)
                 /\ wrote' = [wrote EXCEPT ![p] = TRUE]
                 /\ node' = [node EXCEPT ![p] = nd]
                 /\ pc' = [pc EXCEPT ![p] = "respond"]
                 /\ UNCHANGED resp
            ELSE /\ Finish(p, ErrResp(500, "upsert"))
                 /\ node' = [node EXCEPT ![p] = nd]
                 /\ UNCHANGED <<nodes, wrote>>
    /\ tasks' = tasks \cup {Task(p, "post", "bcast")}
    /\ UNCHANGED <<failover, isPro, req, orig, published, snap>>
    /\ GwFrame

\* `err = logic.UpsertNode(&node)` and its error return.
Upsert(p, nd) ==
    /\ pc[p] = "upsert"
    /\ \E ok \in BOOLEAN :
         /\ io' = [io EXCEPT ![p].upsert = ok]
         /\ IF ok
            THEN /\ nodes' = UpsertNode(req[p].id, nd)
                 /\ wrote' = [wrote EXCEPT ![p] = TRUE]
                 /\ node' = [node EXCEPT ![p] = nd]
                 /\ pc' = [pc EXCEPT ![p] = "respond"]
                 /\ UNCHANGED resp
            ELSE /\ Finish(p, ErrResp(500, "upsert"))
                 /\ node' = [node EXCEPT ![p] = nd]
                 /\ UNCHANGED <<nodes, wrote>>
    /\ UNCHANGED <<failover, isPro, req, orig, tasks, published, snap>>
    /\ GwFrame

\* Respond reporting the error of a broadcast the request's goroutine has
\* already run.
RespondSurfacingPublishError(p) ==
    /\ pc[p] = "respond"
    /\ resp' = [resp EXCEPT ![p] =
                  IF \E e \in published : e.origin = p /\ e.err = "err"
                  THEN ErrResp(500, "publish")
                  ELSE NodeResp(node[p])]
    /\ pc' = [pc EXCEPT ![p] = "dispatch"]
    /\ UNCHANGED <<nodes, failover, isPro, io, req, orig, node, wrote, tasks,
                   published, snap>>
    /\ GwFrame

\* `w.WriteHeader(http.StatusOK); json.NewEncoder(w).Encode(apiNode)`
Respond(p) ==
    /\ pc[p] = "respond"
    /\ resp' = [resp EXCEPT ![p] = NodeResp(node[p])]
    /\ pc' = [pc EXCEPT ![p] = "dispatch"]
    /\ UNCHANGED <<nodes, failover, isPro, io, req, orig, node, wrote, tasks,
                   published, snap>>
    /\ GwFrame

\* `go mq.PublishPeerUpdate(false)`, the handler's last statement.
Dispatch(p) ==
    /\ pc[p] = "dispatch"
    /\ tasks' = tasks \cup {Task(p, "post", "bcast")}
    /\ pc' = [pc EXCEPT ![p] = "done"]
    /\ UNCHANGED <<nodes, failover, isPro, io, req, orig, node, resp, wrote,
                   published, snap>>
    /\ GwFrame

CreateUpsert(p)   == req[p].kind = "promote" /\ Upsert(p, node[p])
CreateRespond(p)  == req[p].kind = "promote" /\ Respond(p)
CreateDispatch(p) == req[p].kind = "promote" /\ Dispatch(p)

\* UpdateChecks without `if !node.IsInternetGateway`.
UpdateChecksNoGatewayGuard(nd, body) ==
    IF body = "malformed" THEN "decode"
    ELSE IF ~ValidateInetGwReq(nd, body, TRUE) THEN "invalid"
    ELSE "ok"

\* The outcome of updateInternetGw's checks after ValidateParams.
UpdateChecks(nd, body) ==
    IF body = "malformed" THEN "decode"
    ELSE IF ~nd.isInetGw THEN "notgw"
    ELSE IF ~ValidateInetGwReq(nd, body, TRUE) THEN "invalid"
    ELSE "ok"

\* updateInternetGw, from ValidateParams to SetInternetGw.
UpdateRead(p) ==
    /\ pc[p] = "read" /\ req[p].kind = "update"
    /\ \E readOk \in BOOLEAN :
         LET v == ValidateParams(nodes[req[p].id], readOk)
             c == UpdateChecks(v.node, req[p].body)
         IN  /\ io' = [io EXCEPT ![p].read = readOk]
             /\ IF ~v.ok
                THEN Finish(p, ErrResp(400, "params")) /\ UNCHANGED <<orig, node>>
                ELSE /\ orig' = [orig EXCEPT ![p] = v.node]
                     /\ IF c = "ok"
                        THEN /\ node' = [node EXCEPT ![p] =
                                   SetInternetGw(UnsetInternetGw(v.node), req[p].body)]
                             /\ pc' = [pc EXCEPT ![p] = "upsert"]
                             /\ UNCHANGED resp
                        ELSE /\ node' = [node EXCEPT ![p] = v.node]
                             /\ Finish(p, CheckResp(c))
    /\ UNCHANGED <<nodes, failover, isPro, req, wrote, tasks, published, snap>>
    /\ GwFrame

UpdateUpsert(p)   == req[p].kind = "update" /\ Upsert(p, node[p])
UpdateRespond(p)  == req[p].kind = "update" /\ Respond(p)
UpdateDispatch(p) == req[p].kind = "update" /\ Dispatch(p)

\* deleteInternetGw: ValidateParams.
DeleteRead(p) ==
    /\ pc[p] = "read" /\ req[p].kind = "demote"
    /\ \E readOk \in BOOLEAN :
         LET v == ValidateParams(nodes[req[p].id], readOk)
         IN  /\ io' = [io EXCEPT ![p].read = readOk]
             /\ IF ~v.ok
                THEN Finish(p, ErrResp(400, "params")) /\ UNCHANGED <<orig, node>>
                ELSE /\ orig' = [orig EXCEPT ![p] = v.node]
                     /\ node' = [node EXCEPT ![p] = v.node]
                     /\ pc' = [pc EXCEPT ![p] = "upsert"]
                     /\ UNCHANGED resp
    /\ UNCHANGED <<nodes, failover, isPro, req, wrote, tasks, published, snap>>
    /\ GwFrame

\* DeleteUpsert with createInternetGw's ingress DNS default copied in.
DeleteUpsertWithIngressDefault(p) ==
    req[p].kind = "demote" /\ Upsert(p, IngressDefault(UnsetInternetGw(node[p])))

\* deleteInternetGw: UnsetInternetGw and UpsertNode.
DeleteUpsert(p)   == req[p].kind = "demote" /\ Upsert(p, UnsetInternetGw(node[p]))
DeleteRespond(p)  == req[p].kind = "demote" /\ Respond(p)
DeleteDispatch(p) == req[p].kind = "demote" /\ Dispatch(p)

\* The goroutine of createInternetGw's failover branch: ResetFailedOverPeer.
FailoverReset(t) ==
    /\ t \in tasks /\ t.stage = "reset"
    /\ failover' = ResetFailedOverPeer(t.net)
    /\ tasks' = (tasks \ {t}) \cup {[t EXCEPT !.stage = "bcast"]}
    /\ UNCHANGED <<nodes, isPro, io, pc, req, orig, node, resp, wrote, published,
                   snap>>
    /\ GwFrame

\* A goroutine reaches mq.PublishPeerUpdate: the broadcast starts.
PeerBroadcast(t) ==
    /\ t \in tasks /\ t.stage = "bcast"
    /\ tasks' = tasks \ {t}
    /\ \E err \in {"nil", "err"} :
         published' = published \cup
            {[origin |-> t.origin, via |-> t.via,
              afterResp |-> resp[t.origin].status # 0, err |-> err]}
    /\ UNCHANGED <<nodes, failover, isPro, io, pc, req, orig, node, resp, wrote,
                   snap>>
    /\ GwFrame

\* All requests of the round are answered and their goroutines have ended:
\* the next round of requests may begin.
NewRound ==
    /\ \A p \in Procs : pc[p] \in {"idle", "done"}
    /\ \E p \in Procs : pc[p] = "done"
    /\ tasks = {}
    /\ pc' = [p \in Procs |-> "idle"]
    /\ req' = [p \in Procs |-> NoReq]
    /\ orig' = [p \in Procs |-> NoNode]
    /\ node' = [p \in Procs |-> NoNode]
    /\ resp' = [p \in Procs |-> NoResp]
    /\ wrote' = [p \in Procs |-> FALSE]
    /\ io' = [p \in Procs |-> NoIO]
    /\ published' = {}
    /\ snap' = nodes
    /\ UNCHANGED <<nodes, failover, isPro, tasks>>
    /\ GwFrame

\* The registry before any gateway request: no node is an internet gateway.
InitNode(n) ==
    {[NoNode EXCEPT !.present = TRUE, !.isGw = g] :
        g \in IF n = "n1" THEN BOOLEAN ELSE {FALSE}}

GwInit ==
    /\ nodes \in {f \in [NodeIds -> UNION {InitNode(n) : n \in NodeIds}] :
                    \A n \in NodeIds : f[n] \in InitNode(n)}
    /\ isPro \in BOOLEAN
    /\ failover \in [Nets -> IF isPro THEN {"none", "fo"} ELSE {"none"}]
    /\ pc = [p \in Procs |-> "idle"]
    /\ req = [p \in Procs |-> NoReq]
    /\ orig = [p \in Procs |-> NoNode]
    /\ node = [p \in Procs |-> NoNode]
    /\ resp = [p \in Procs |-> NoResp]
    /\ wrote = [p \in Procs |-> FALSE]
    /\ io = [p \in Procs |-> NoIO]
    /\ tasks = {}
    /\ published = {}
    /\ snap = nodes

GwNext ==
    \/ \E p \in Procs :
         \/ Begin(p)
         \/ CreateRead(p) \/ CreateFailover(p) \/ CreateUpsert(p)
         \/ CreateRespond(p) \/ CreateDispatch(p)
         \/ UpdateRead(p) \/ UpdateUpsert(p) \/ UpdateRespond(p)
         \/ UpdateDispatch(p)
         \/ DeleteRead(p) \/ DeleteUpsert(p) \/ DeleteRespond(p)
         \/ DeleteDispatch(p)
    \/ \E t \in tasks : FailoverReset(t)
    \/ \E t \in tasks : PeerBroadcast(t)
    \/ NewRound

-----------------------------------------------------------------------------
(* MQ publishers (mq/publishers.go).  One goroutine serves one call at a   *)
(* time; a step is one registry read, one call of publish, or one          *)
(* iteration of a range loop.                                              *)

\* logic.GetAllHosts: the stored hosts, in the registry's order.
HostOrder == <<"h1", "h2", "h3">>

IsStored(h) == h \in hostsReg

GetAllHosts == SelectSeq(HostOrder, IsStored)

\* The networks a host has a node in, within a node list.
HostNets(h, all) ==
    {NetOf(n) : n \in {m \in NodeIds : all[m].present /\ HostOf(m) = h}}

\* logic.GetPeerUpdateForHost, section 4.1: the peers are the non-deleted nodes
\* of the host's networks that are not the host's own; the deleted node and
\* the deleted clients are carried as removals.
GetPeerUpdateForHost(h, all, delId, clients) ==
    [peers   |-> {n \in NodeIds :
                    /\ all[n].present /\ ~all[n].pendingDelete
                    /\ n # delId
                    /\ HostOf(n) # h
                    /\ NetOf(n) \in HostNets(h, all)},
     removed |-> IF delId = "none" THEN {} ELSE {delId},
     clients |-> clients]

\* A call recorded in outbox: what was handed to publish, for which host, and
\* how it ended: "delivered", "failed" (publish returned an error: a timeout
\* or an error of the broker) or "skipped" (no payload: publish was never
\* called).
Entry(by, topic, h, view, nd, result) ==
    [by |-> by, topic |-> topic, host |-> h, peers |-> view.peers,
     removed |-> view.removed, clients |-> view.clients, node |-> nd,
     result |-> result]

NoView == [peers |-> {}, removed |-> {}, clients |-> {}]

Outcomes == {"ok", "nopayload", "transport"}

ResultOf(outcome) ==
    CASE outcome = "ok" -> "delivered"
      [] outcome = "transport" -> "failed"
      [] outcome = "nopayload" -> "skipped"

\* PublishSingleHostPeerUpdate: the peer update of one host, computed,
\* marshalled and published on peers/host/<hostID>/<server>.
PublishSingleHostPeerUpdate(by, h, all, delId, clients, outcome) ==
    [entry |-> Entry(by, "peers", h,
                     GetPeerUpdateForHost(h, all, delId, clients),
                     NoNode, ResultOf(outcome)),
     err   |-> IF outcome = "ok" THEN "nil" ELSE "err"]

\* NodeUpdate: the node published to its owning host on
\* node/update/<network>/<nodeID>.  Nothing is published, and nil is
\* returned, when the host lookup fails or the backend is not the MQ.
NodeUpdate(by, id, nd, hostOk, outcome) ==
    IF ~hostOk \/ ~IsStored(HostOf(id)) THEN [entries |-> <<>>, err |-> "nil"]
    ELSE IF ~mqBackend THEN [entries |-> <<>>, err |-> "nil"]
    ELSE IF outcome = "nopayload" THEN [entries |-> <<>>, err |-> "err"]
    ELSE [entries |-> <<Entry(by, "node", HostOf(id), NoView, nd,
                              ResultOf(outcome))>>,
          err     |-> IF outcome = "ok" THEN "nil" ELSE "err"]

NoOp == [op |-> "none", id |-> "n1", notify |-> FALSE]

\* The node a caller passes: the record it read from the registry before
\* the node's removal.
CallerNode(id) == [NoNode EXCEPT !.present = TRUE]

\* A caller invokes PublishMqUpdatesForDeletedNode(node, sendNodeUpdate, []).
AnnounceBegin ==
    /\ mpc = "idle"
    /\ \E id \in NodeIds, notify \in BOOLEAN :
         /\ mop' = [op |-> "delnode", id |-> id, notify |-> notify]
         /\ mcaller' = CallerNode(id)
         /\ mnode' = CallerNode(id)
    /\ mpc' = "mark"
    /\ UNCHANGED <<nodes, hostsReg, mqBackend, dnsMode, mhosts, mall, mi,
                   merr, mret, outbox, trail>>
    /\ MqFrame

\* A caller invokes PublishPeerUpdate().
PeerUpdateBegin ==
    /\ mpc = "idle"
    /\ mop' = [op |-> "peers", id |-> "n1", notify |-> FALSE]
    /\ mpc' = "hosts"
    /\ UNCHANGED <<nodes, hostsReg, mqBackend, dnsMode, mcaller, mnode, mhosts, mall,
                   mi, merr, mret, outbox, trail>>
    /\ MqFrame

\* A caller invokes PublishDeletedClientPeerUpdate(delClient).
ClientBegin ==
    /\ mpc = "idle"
    /\ \E c \in ClientIds : mop' = [op |-> "delclient", id |-> c, notify |-> FALSE]
    /\ mpc' = "hosts"
    /\ UNCHANGED <<nodes, hostsReg, mqBackend, dnsMode, mcaller, mnode, mhosts, mall,
                   mi, merr, mret, outbox, trail>>
    /\ MqFrame

\* AnnounceMark with the node passed by pointer (`node *models.Node`).
AnnounceMarkThroughPointer ==
    /\ mpc = "mark"
    /\ mnode' = [mnode EXCEPT !.pendingDelete = TRUE, !.action = "delete"]
    /\ mcaller' = [mcaller EXCEPT !.pendingDelete = TRUE, !.action = "delete"]
    /\ trail' = Append(trail, "mark")
    /\ mpc' = IF mop.notify THEN "notify" ELSE "hosts"
    /\ UNCHANGED <<nodes, hostsReg, mqBackend, dnsMode, mop, mhosts, mall, mi,
                   merr, mret, outbox>>
    /\ MqFrame

\* `node.PendingDelete = true; node.Action = models.NODE_DELETE`
AnnounceMark ==
    /\ mpc = "mark"
    /\ mnode' = [mnode EXCEPT !.pendingDelete = TRUE, !.action = "delete"]
    /\ trail' = Append(trail, "mark")
    /\ mpc' = IF mop.notify THEN "notify" ELSE "hosts"
    /\ UNCHANGED <<nodes, hostsReg, mqBackend, dnsMode, mcaller, mop, mhosts, mall, mi,
                   merr, mret, outbox>>
    /\ MqFrame

\* AnnounceNotify returning when NodeUpdate fails.
AnnounceNotifyAbortOnError ==
    /\ mpc = "notify"
    /\ \E hostOk \in BOOLEAN, outcome \in Outcomes :
         LET r == NodeUpdate("m", mop.id, mnode, hostOk, outcome)
         IN  /\ outbox' = outbox \o r.entries
             /\ mpc' = IF r.err = "err" THEN "done" ELSE "hosts"
    /\ trail' = Append(trail, "notify")
    /\ UNCHANGED <<nodes, hostsReg, mqBackend, dnsMode, mcaller, mop, mnode, mhosts,
                   mall, mi, merr, mret>>
    /\ MqFrame

\* `if sendNodeUpdate { if err := NodeUpdate(&node); err != nil { slog.Error } }`
AnnounceNotify ==
    /\ mpc = "notify"
    /\ \E hostOk \in BOOLEAN, outcome \in Outcomes :
         LET r == NodeUpdate("m", mop.id, mnode, hostOk, outcome)
         IN  outbox' = outbox \o r.entries
    /\ trail' = Append(trail, "notify")
    /\ mpc' = "hosts"
    /\ UNCHANGED <<nodes, hostsReg, mqBackend, dnsMode, mcaller, mop, mnode, mhosts,
                   mall, mi, merr, mret>>
    /\ MqFrame

\* Where a broadcast returns to.
AfterBroadcast == IF mop.op = "delnode" THEN "dns" ELSE "done"

\* DeletedNodeArg with nil passed for the deleted node.
DeletedNodeArgNil == "none"

\* The deleted node a broadcast carries: delNode of
\* PublishDeletedNodePeerUpdate.
DeletedNodeArg == IF mop.op = "delnode" THEN mop.id ELSE "none"

\* The deleted clients a broadcast carries: `[]models.ExtClient{*delClient}`
\* of PublishDeletedClientPeerUpdate.
DeletedClientsArg == IF mop.op = "delclient" THEN {mop.id} ELSE {}

\* `if host.OS != models.OS_Types.IoT` of PublishDeletedClientPeerUpdate: the
\* hosts its loop makes no call for.
SkipsHost(h) == mop.op = "delclient" /\ OSOf(h) = "iot"

\* PublishPeerUpdate, PublishDeletedNodePeerUpdate and
\* PublishDeletedClientPeerUpdate, which differ in the deleted node and
\* clients they pass on and in the hosts they skip: the backend check and
\* logic.GetAllHosts.
BroadcastHosts ==
    /\ mpc = "hosts"
    /\ IF ~mqBackend
       THEN /\ mret' = "nil" /\ mpc' = AfterBroadcast
            /\ UNCHANGED <<mhosts, merr>>
       ELSE \E ok \in BOOLEAN :
              IF ok
              THEN /\ mhosts' = GetAllHosts /\ merr' = "nil"
                   /\ mpc' = "nodes" /\ UNCHANGED mret
              ELSE /\ merr' = "err" /\ mret' = "err"
                   /\ mpc' = AfterBroadcast /\ UNCHANGED mhosts
    /\ trail' = Append(trail, "bcast")
    /\ UNCHANGED <<nodes, hostsReg, mqBackend, dnsMode, mcaller, mop, mnode, mall, mi,
                   outbox>>
    /\ MqFrame

\* The broadcast's logic.GetAllNodes.
BroadcastNodes ==
    /\ mpc = "nodes"
    /\ \E ok \in BOOLEAN :
         IF ok
         THEN /\ mall' = nodes /\ mi' = 1 /\ merr' = "nil"
              /\ mpc' = "loop" /\ UNCHANGED mret
         ELSE /\ merr' = "err" /\ mret' = "err"
              /\ mpc' = AfterBroadcast /\ UNCHANGED <<mall, mi>>
    /\ UNCHANGED <<nodes, hostsReg, mqBackend, dnsMode, mcaller, mop, mnode, mhosts,
                   outbox, trail>>
    /\ MqFrame

\* BroadcastLoop leaving the loop at the first error.
BroadcastLoopStopOnError ==
    /\ mpc = "loop" /\ mi <= Len(mhosts)
    /\ IF SkipsHost(mhosts[mi])
       THEN /\ mi' = mi + 1
            /\ UNCHANGED <<outbox, merr>>
       ELSE \E outcome \in Outcomes :
              LET r == PublishSingleHostPeerUpdate("m", mhosts[mi], mall,
                                                   DeletedNodeArg,
                                                   DeletedClientsArg, outcome)
              IN  /\ outbox' = Append(outbox, r.entry)
                  /\ merr' = r.err
                  /\ mi' = IF r.err = "err" THEN Len(mhosts) + 1 ELSE mi + 1
    /\ UNCHANGED <<nodes, hostsReg, mqBackend, dnsMode, mcaller, mpc, mop, mnode,
                   mhosts, mall, mret, trail>>
    /\ MqFrame

\* BroadcastLoop keeping the error of an earlier host (`err` is overwritten
\* by a failed call only).
BroadcastLoopKeepingError ==
    /\ mpc = "loop" /\ mi <= Len(mhosts)
    /\ IF SkipsHost(mhosts[mi])
       THEN UNCHANGED <<outbox, merr>>
       ELSE \E outcome \in Outcomes :
              LET r == PublishSingleHostPeerUpdate("m", mhosts[mi], mall,
                                                   DeletedNodeArg,
                                                   DeletedClientsArg, outcome)
              IN  /\ outbox' = Append(outbox, r.entry)
                  /\ merr' = IF r.err = "err" THEN "err" ELSE merr
    /\ mi' = mi + 1
    /\ UNCHANGED <<nodes, hostsReg, mqBackend, dnsMode, mcaller, mpc, mop,
                   mnode, mhosts, mall, mret, trail>>
    /\ MqFrame

\* The broadcast's loop: one iteration of `for _, host := range hosts`.
BroadcastLoop ==
    /\ mpc = "loop" /\ mi <= Len(mhosts)
    /\ IF SkipsHost(mhosts[mi])
       THEN UNCHANGED <<outbox, merr>>
       ELSE \E outcome \in Outcomes :
              LET r == PublishSingleHostPeerUpdate("m", mhosts[mi], mall,
                                                   DeletedNodeArg,
                                                   DeletedClientsArg, outcome)
              IN  /\ outbox' = Append(outbox, r.entry)
                  /\ merr' = r.err
    /\ mi' = mi + 1
    /\ UNCHANGED <<nodes, hostsReg, mqBackend, dnsMode, mcaller, mpc, mop, mnode,
                   mhosts, mall, mret, trail>>
    /\ MqFrame

\* The broadcast's `return err` after the loop.
BroadcastReturn ==
    /\ mpc = "loop" /\ mi > Len(mhosts)
    /\ mret' = merr
    /\ mpc' = AfterBroadcast
    /\ UNCHANGED <<nodes, hostsReg, mqBackend, dnsMode, mcaller, mop, mnode, mhosts,
                   mall, mi, merr, outbox, trail>>
    /\ MqFrame

\* `if servercfg.IsDNSMode() { logic.SetDNS() }`
AnnounceDNS ==
    /\ mpc = "dns"
    /\ trail' = IF dnsMode THEN Append(trail, "dns") ELSE trail
    /\ mpc' = "done"
    /\ UNCHANGED <<nodes, hostsReg, mqBackend, dnsMode, mcaller, mop, mnode, mhosts,
                   mall, mi, merr, mret, outbox>>
    /\ MqFrame

\* The call has returned; the goroutine is free for the next one.
PublisherReturn ==
    /\ mpc = "done"
    /\ mpc' = "idle"
    /\ mop' = NoOp
    /\ mnode' = NoNode
    /\ mcaller' = NoNode
    /\ mhosts' = <<>>
    /\ mall' = nodes
    /\ mi' = 0
    /\ merr' = "nil"
    /\ mret' = "none"
    /\ outbox' = SelectSeq(outbox, LAMBDA e : e.by # "m")
    /\ trail' = <<>>
    /\ UNCHANGED <<nodes, hostsReg, mqBackend, dnsMode>>
    /\ MqFrame

-----------------------------------------------------------------------------
(* The keepalive scheduler: sendPeers, called on every timer tick.         *)

\* The tick on which sendPeers forces a cycle.
ForceEvery == 5

Threads == {"k1", "k2"}

\* The model follows the counter up to this value.
MaxCounter == 7

NoLocals ==
    [hosts |-> <<>>, hostsOk |-> FALSE, nodesOk |-> FALSE, force |-> FALSE,
     i |-> 1, before |-> 0, tmp |-> 0]

\* The timer fires: sendPeers is called.
TickBegin(t) ==
    /\ spc[t] \in {"idle", "done"}
    /\ spc' = [spc EXCEPT ![t] = "hosts"]
    /\ sloc' = [sloc EXCEPT ![t] = [NoLocals EXCEPT !.before = peer_force_send]]
    /\ outbox' = SelectSeq(outbox, LAMBDA e : e.by # t)
    /\ overlapped' = (overlapped \/ \E u \in Threads \ {t} :
                                       spc[u] \notin {"idle", "done"})
    /\ UNCHANGED <<nodes, hostsReg, peer_force_send>>
    /\ SchedFrame

\* `hosts, err := logic.GetAllHosts()`: an error is logged, no more.
TickHosts(t) ==
    /\ spc[t] = "hosts"
    /\ \E ok \in BOOLEAN :
         sloc' = [sloc EXCEPT ![t].hosts = IF ok THEN GetAllHosts ELSE <<>>,
                              ![t].hostsOk = ok]
    /\ spc' = [spc EXCEPT ![t] = "nodes"]
    /\ UNCHANGED <<nodes, hostsReg, overlapped, peer_force_send, outbox>>
    /\ SchedFrame

\* `nodes, err := logic.GetAllNodes(); if err != nil { return }`
TickNodes(t) ==
    /\ spc[t] = "nodes"
    /\ \E ok \in BOOLEAN :
         /\ sloc' = [sloc EXCEPT ![t].nodesOk = ok]
         /\ spc' = [spc EXCEPT ![t] = IF ok THEN "inc" ELSE "done"]
    /\ UNCHANGED <<nodes, hostsReg, overlapped, peer_force_send, outbox>>
    /\ SchedFrame

\* `peer_force_send++`, an unsynchronised read-modify-write of the global:
\* the read.
TickInc(t) ==
    /\ spc[t] = "inc"
    /\ peer_force_send < MaxCounter
    /\ sloc' = [sloc EXCEPT ![t].tmp = peer_force_send]
    /\ spc' = [spc EXCEPT ![t] = "store"]
    /\ UNCHANGED <<nodes, hostsReg, overlapped, peer_force_send, outbox>>
    /\ SchedFrame

\* `peer_force_send++`: the write.
TickStore(t) ==
    /\ spc[t] = "store"
    /\ peer_force_send' = sloc[t].tmp + 1
    /\ spc' = [spc EXCEPT ![t] = "check"]
    /\ UNCHANGED <<nodes, hostsReg, overlapped, sloc, outbox>>
    /\ SchedFrame

\* IsForcedTick off by one.
IsForcedTickOneEarly(counter) == counter = ForceEvery - 1

\* `peer_force_send == 5`
IsForcedTick(counter) == counter = ForceEvery

\* TickCheck without `peer_force_send = 0`.
TickCheckWithoutReset(t) ==
    /\ spc[t] = "check"
    /\ IF IsForcedTick(peer_force_send)
       THEN /\ sloc' = [sloc EXCEPT ![t].force = TRUE]
            /\ spc' = [spc EXCEPT ![t] = "loop"]
       ELSE /\ spc' = [spc EXCEPT ![t] = "done"]
            /\ UNCHANGED sloc
    /\ UNCHANGED <<nodes, hostsReg, overlapped, peer_force_send, outbox>>
    /\ SchedFrame

\* TickCheck without `force = true`.
TickCheckWithoutForce(t) ==
    /\ spc[t] = "check"
    /\ peer_force_send' = IF IsForcedTick(peer_force_send)
                          THEN 0 ELSE peer_force_send
    /\ spc' = [spc EXCEPT ![t] = "done"]
    /\ UNCHANGED <<nodes, hostsReg, overlapped, sloc, outbox>>
    /\ SchedFrame

\* `if peer_force_send == 5 { servercfg.SetHost(); force = true;
\* peer_force_send = 0; logic.TimerCheckpoint() }` and `if force`.
TickCheck(t) ==
    /\ spc[t] = "check"
    /\ IF IsForcedTick(peer_force_send)
       THEN /\ sloc' = [sloc EXCEPT ![t].force = TRUE]
            /\ peer_force_send' = 0
            /\ spc' = [spc EXCEPT ![t] = "loop"]
       ELSE /\ spc' = [spc EXCEPT ![t] = "done"]
            /\ UNCHANGED <<sloc, peer_force_send>>
    /\ UNCHANGED <<nodes, hostsReg, overlapped, outbox>>
    /\ SchedFrame

\* One iteration of the forced cycle's `for _, host := range hosts`.
TickPublish(t) ==
    /\ spc[t] = "loop" /\ sloc[t].i <= Len(sloc[t].hosts)
    /\ \E outcome \in Outcomes :
         LET r == PublishSingleHostPeerUpdate(t, sloc[t].hosts[sloc[t].i],
                                              nodes, "none", {}, outcome)
         IN  outbox' = Append(outbox, r.entry)
    /\ sloc' = [sloc EXCEPT ![t].i = @ + 1]
    /\ UNCHANGED <<nodes, hostsReg, overlapped, peer_force_send, spc>>
    /\ SchedFrame

\* sendPeers returns after the loop.
TickEnd(t) ==
    /\ spc[t] = "loop" /\ sloc[t].i > Len(sloc[t].hosts)
    /\ spc' = [spc EXCEPT ![t] = "done"]
    /\ UNCHANGED <<nodes, hostsReg, overlapped, peer_force_send, sloc, outbox>>
    /\ SchedFrame

-----------------------------------------------------------------------------
(* DNS records of the external clients (getExtClientDNS).                  *)

\* The addresses the clients have when they have one.
Address4Of(id) == IF id = "c1" THEN "10.0.0.1" ELSE "10.0.0.2"

Address6Of(id) == IF id = "c1" THEN "fd00::1" ELSE "fd00::2"

\* models.ExtClient: ClientID, Network, Address (IPv4) and Address6 (IPv6),
\* the empty string for an address the client does not have.
ExtClient(id, net, has4, has6) ==
    [clientID |-> id, network |-> net,
     address  |-> IF has4 THEN Address4Of(id) ELSE "",
     address6 |-> IF has6 THEN Address6Of(id) ELSE ""]

\* client.ClientID + "." + client.Network
DNSName(id, net) == [client |-> id, network |-> net]

\* The zero value of models.DNSUpdate.
NoDNS == [action |-> "none", name |-> DNSName("", ""), address |-> ""]

\* logic.GetNetworkExtClients: the stored clients of the network.
GetNetworkExtClients(net) ==
    SelectSeq(extclients, LAMBDA c : c.network = net)

\* A caller invokes getExtClientDNS(network).
DnsBegin ==
    /\ dpc = "idle"
    /\ \E net \in Nets : dnet' = net
    /\ dpc' = "read"
    /\ UNCHANGED <<extclients, dclients, di, dns, alldns>>
    /\ DnsFrame

\* `alldns := []models.DNSUpdate{}; dns := models.DNSUpdate{};
\* clients, err := logic.GetNetworkExtClients(network)`: an error is logged
\* and the loop runs over no client.
DnsRead ==
    /\ dpc = "read"
    /\ \E ok \in BOOLEAN :
         dclients' = IF ok THEN GetNetworkExtClients(dnet) ELSE <<>>
    /\ alldns' = <<>>
    /\ dns' = NoDNS
    /\ di' = 1
    /\ dpc' = "loop"
    /\ UNCHANGED <<extclients, dnet>>
    /\ DnsFrame

\* The record appended for the client's IPv6 address:
\* `dns.Address = client.Address`.
Address6Record(named, client) == [named EXCEPT !.address = client.address]

\* One iteration of `for _, client := range clients`.
DnsLoop ==
    /\ dpc = "loop" /\ di <= Len(dclients)
    /\ LET client == dclients[di]
           named  == [dns EXCEPT !.action = "insert",
                                 !.name = DNSName(client.clientID,
                                                 client.network)]
           first  == IF client.address # ""
                     THEN [named EXCEPT !.address = client.address]
                     ELSE named
           second == IF client.address6 # ""
                     THEN Address6Record(first, client)
                     ELSE first
       IN  /\ alldns' = alldns
                \o (IF client.address # "" THEN <<first>> ELSE <<>>)
                \o (IF client.address6 # "" THEN <<second>> ELSE <<>>)
           /\ dns' = second
    /\ di' = di + 1
    /\ UNCHANGED <<extclients, dpc, dnet, dclients>>
    /\ DnsFrame

\* `return alldns`
DnsReturn ==
    /\ dpc = "loop" /\ di > Len(dclients)
    /\ dpc' = "done"
    /\ UNCHANGED <<extclients, dnet, dclients, di, dns, alldns>>
    /\ DnsFrame

\* The caller has the records; the next call may come.
DnsIdle ==
    /\ dpc = "done"
    /\ dpc' = "idle"
    /\ dclients' = <<>> /\ di' = 1 /\ dns' = NoDNS /\ alldns' = <<>>
    /\ UNCHANGED <<extclients, dnet>>
    /\ DnsFrame

-----------------------------------------------------------------------------
(* Specifications.                                                         *)

GwQuiet ==
    /\ isPro = FALSE
    /\ failover = [n \in Nets |-> "none"]
    /\ pc = [p \in Procs |-> "idle"]
    /\ req = [p \in Procs |-> NoReq]
    /\ orig = [p \in Procs |-> NoNode]
    /\ node = [p \in Procs |-> NoNode]
    /\ resp = [p \in Procs |-> NoResp]
    /\ wrote = [p \in Procs |-> FALSE]
    /\ io = [p \in Procs |-> NoIO]
    /\ tasks = {}
    /\ published = {}
    /\ snap = nodes

MqQuiet ==
    /\ mpc = "idle"
    /\ mop = NoOp
    /\ mnode = NoNode
    /\ mcaller = NoNode
    /\ mhosts = <<>>
    /\ mall = nodes
    /\ mi = 0
    /\ merr = "nil"
    /\ mret = "none"
    /\ outbox = <<>>
    /\ trail = <<>>

SchedQuiet ==
    /\ peer_force_send = 0
    /\ overlapped = FALSE
    /\ spc = [t \in Threads |-> "idle"]
    /\ sloc = [t \in Threads |-> NoLocals]

DnsQuiet ==
    /\ extclients = <<>>
    /\ dpc = "idle" /\ dnet = "net1"
    /\ dclients = <<>> /\ di = 1 /\ dns = NoDNS /\ alldns = <<>>

\* A registry as the publishers may find it: any of the nodes stored, and
\* the host of every stored node stored.
RegistryInit ==
    /\ nodes \in [NodeIds -> {NoNode, [NoNode EXCEPT !.present = TRUE]}]
    /\ hostsReg \in SUBSET HostIds
    /\ \A n \in NodeIds : nodes[n].present => HostOf(n) \in hostsReg

\* The gateway handlers against a full registry.
Init ==
    /\ GwInit
    /\ hostsReg = HostIds /\ mqBackend = TRUE /\ dnsMode = FALSE
    /\ MqQuiet /\ SchedQuiet /\ DnsQuiet

Next == GwNext

Spec == Init /\ [][Next]_vars

\* The deletion announcement.
MqInit ==
    /\ RegistryInit
    /\ mqBackend \in BOOLEAN /\ dnsMode \in BOOLEAN
    /\ GwQuiet /\ MqQuiet /\ SchedQuiet /\ DnsQuiet

MqNext ==
    \/ PeerUpdateBegin \/ ClientBegin
    \/ AnnounceBegin \/ AnnounceMark \/ AnnounceNotify
    \/ BroadcastHosts \/ BroadcastNodes \/ BroadcastLoop \/ BroadcastReturn
    \/ AnnounceDNS \/ PublisherReturn

SpecMq == MqInit /\ [][MqNext]_vars

\* The scheduler, one tick at a time.
SchedInit ==
    /\ RegistryInit
    /\ mqBackend = TRUE /\ dnsMode = FALSE
    /\ GwQuiet /\ MqQuiet /\ SchedQuiet /\ DnsQuiet

SchedNext ==
    \/ TickBegin("k1") \/ TickHosts("k1") \/ TickNodes("k1")
    \/ TickInc("k1") \/ TickStore("k1") \/ TickCheck("k1")
    \/ TickPublish("k1")
    \/ TickEnd("k1")

SpecSched == SchedInit /\ [][SchedNext]_vars

\* sendPeers called from two goroutines, against a registry of one host.
OverlapInit ==
    /\ hostsReg = {"h1"}
    /\ nodes = [n \in NodeIds |->
                  [NoNode EXCEPT !.present = HostOf(n) \in hostsReg]]
    /\ mqBackend = TRUE /\ dnsMode = FALSE
    /\ GwQuiet /\ MqQuiet /\ SchedQuiet /\ DnsQuiet

OverlapNext ==
    \E t \in Threads :
        \/ TickBegin(t) \/ TickHosts(t) \/ TickNodes(t)
        \/ TickInc(t) \/ TickStore(t) \/ TickCheck(t)
        \/ TickPublish(t) \/ TickEnd(t)

SpecOverlap == OverlapInit /\ [][OverlapNext]_vars

\* The scheduler with its timer firing for ever: sendPeers is called again
\* after it has returned, and a call that has begun runs to its return.
FairSpecSched == SpecSched /\ WF_vars(SchedNext)

\* The publishers and the scheduler side by side, against a registry of two
\* hosts and their nodes.
BroadcastInit ==
    /\ hostsReg = {"h1", "h2"}
    /\ nodes = [n \in NodeIds |->
                  [NoNode EXCEPT !.present = HostOf(n) \in hostsReg]]
    /\ mqBackend = TRUE /\ dnsMode = FALSE
    /\ GwQuiet /\ MqQuiet /\ SchedQuiet /\ DnsQuiet

BroadcastNext ==
    \/ PeerUpdateBegin \/ ClientBegin
    \/ AnnounceBegin \/ AnnounceMark \/ AnnounceNotify
    \/ BroadcastHosts \/ BroadcastNodes \/ BroadcastLoop \/ BroadcastReturn
    \/ AnnounceDNS \/ PublisherReturn
    \/ TickBegin("k1") \/ TickHosts("k1") \/ TickNodes("k1")
    \/ TickInc("k1") \/ TickStore("k1") \/ TickCheck("k1")
    \/ TickPublish("k1")
    \/ TickEnd("k1")

SpecBroadcast == BroadcastInit /\ [][BroadcastNext]_vars

\* The external clients the registry may hold: c1 in net1, c2 in either
\* network, each with or without an address of either family.
ClientRegistries ==
    LET one(id, nets) == {ExtClient(id, net, has4, has6) :
                            net \in nets, has4 \in BOOLEAN, has6 \in BOOLEAN}
    IN  {<<>>} \cup {<<a>> : a \in one("c1", {"net1"})}
               \cup {<<a, b>> : a \in one("c1", {"net1"}), b \in one("c2", Nets)}

\* getExtClientDNS against every such registry.
DnsInit ==
    /\ RegistryInit /\ hostsReg = HostIds
    /\ \A n \in NodeIds : nodes[n].present
    /\ mqBackend = TRUE /\ dnsMode = TRUE
    /\ GwQuiet /\ MqQuiet /\ SchedQuiet
    /\ extclients \in ClientRegistries
    /\ dpc = "idle" /\ dnet = "net1"
    /\ dclients = <<>> /\ di = 1 /\ dns = NoDNS /\ alldns = <<>>

DnsNext == DnsBegin \/ DnsRead \/ DnsLoop \/ DnsReturn \/ DnsIdle

SpecDns == DnsInit /\ [][DnsNext]_vars

-----------------------------------------------------------------------------
(* The handlers run one after the other: the reference the concurrent      *)
(* runs are compared with.                                                 *)

\* The stored node and the response a handler can end with when it runs
\* alone on the stored node `stored`, over every outcome of its registry
\* accesses.
SeqResult(r, stored) ==
    LET keep(rs) == [stored |-> stored, resp |-> rs]
        put(nd)  == {[stored |-> nd, resp |-> NodeResp(nd)],
                     keep(ErrResp(500, "upsert"))}
    IN  CASE r.kind = "promote" ->
               {keep(ErrResp(400, "params"))} \cup
               (IF ~stored.present THEN {}
                ELSE UNION {
                  LET c == CreateChecks(stored, r.id, r.body, hostOk)
                  IN  IF c = "ok"
                      THEN put(IngressDefault(SetInternetGw(stored, r.body)))
                      ELSE {keep(CheckResp(c))} : hostOk \in BOOLEAN})
          [] r.kind = "update" ->
               {keep(ErrResp(400, "params"))} \cup
               (IF ~stored.present THEN {}
                ELSE LET c == UpdateChecks(stored, r.body)
                     IN  IF c = "ok"
                         THEN put(SetInternetGw(UnsetInternetGw(stored), r.body))
                         ELSE {keep(CheckResp(c))})
          [] r.kind = "demote" ->
               {keep(ErrResp(400, "params"))} \cup
               (IF ~stored.present THEN {}
                ELSE put(UnsetInternetGw(stored)))

\* The registry and the responses are those of running a, then b, from the
\* registry the round began with.
SeqOrder(a, b) ==
    \E o1 \in SeqResult(req[a], snap[req[a].id]) :
        LET s1 == [snap EXCEPT ![req[a].id] = o1.stored]
        IN  \E o2 \in SeqResult(req[b], s1[req[b].id]) :
              /\ resp[a] = o1.resp
              /\ resp[b] = o2.resp
              /\ nodes = [s1 EXCEPT ![req[b].id] = o2.stored]

RoundOver == \A p \in Procs : pc[p] \in {"idle", "done"}

Started(p) == \E t \in tasks : t.origin = p

Broadcast(p) == \E e \in published : e.origin = p

FreshPromotion(p) ==
    /\ req[p].kind = "promote"
    /\ resp[p].status = 200 /\ resp[p].body = "node"

-----------------------------------------------------------------------------
(* Claims.                                                                 *)

\* C1: once a promotion has been answered 200 with the updated node, the
\* node's network has no active failover peer.
C1_NoFailoverAfterPromotion ==
    \A p \in Procs :
        FreshPromotion(p) => failover[NetOf(req[p].id)] = "none"

\* C2: every stored node that is an internet gateway is owned by a host of
\* the Linux class.
C2_GatewayOnlyOnLinux ==
    \A n \in NodeIds :
        (nodes[n].present /\ nodes[n].isInetGw) => OSOf(HostOf(n)) = "linux"

\* C2 witness: a node is a gateway while a promotion of the node of a
\* non-Linux host has been answered.
C2_Witness ==
    /\ \E n \in NodeIds : nodes[n].present /\ nodes[n].isInetGw
    /\ \E p \in Procs :
         /\ pc[p] = "done" /\ req[p].kind = "promote"
         /\ OSOf(HostOf(req[p].id)) # "linux"
         /\ req[p].body = "p1" /\ orig[p].present

\* C3: when the requests of a round have all been answered, the stored
\* nodes and the responses are those of the requests run one after the
\* other, in some order.
C3_Serializable ==
    RoundOver =>
        \A a, b \in Procs :
            (a # b /\ pc[a] = "done" /\ pc[b] = "done") =>
                (SeqOrder(a, b) \/ SeqOrder(b, a))

\* The hosts that are peers of node id: the other stored hosts with a node
\* in its network.
PeerHosts(id) ==
    {h \in hostsReg \ {HostOf(id)} :
        \E n \in NodeIds : /\ n # id /\ nodes[n].present
                           /\ HostOf(n) = h /\ NetOf(n) = NetOf(id)}

\* The recorded calls of PublishSingleHostPeerUpdate for host h.
PeerCalls(h) ==
    {k \in 1..Len(outbox) : outbox[k].topic = "peers" /\ outbox[k].host = h}

Announced == mpc = "done" /\ mop.op = "delnode"

\* C4 as claimed, on a server whose backend is the MQ: after
\* PublishMqUpdatesForDeletedNode(node, true, []), every host other than the
\* owner that was a peer of the node has been sent a peer update whose peer
\* set excludes the node.
C4_EveryPeerHostSent ==
    (Announced /\ mop.notify /\ mqBackend) =>
        \A h \in PeerHosts(mop.id) :
            \E k \in PeerCalls(h) :
                /\ outbox[k].result # "skipped"
                /\ mop.id \notin outbox[k].peers

\* C4 amended: when the backend is the MQ and both registry reads succeed,
\* PublishSingleHostPeerUpdate is called once for every stored host, the
\* owner included, with the node as deleted node: the peer update excludes
\* the node from the peers and lists it as removed, and it is handed to
\* the broker unless its payload could not be built.  Otherwise no peer
\* update is sent.
C4_PeerHostsSentWhenReadsSucceed ==
    (Announced /\ mop.notify) =>
        /\ (~mqBackend \/ mi = 0) =>
              \A k \in 1..Len(outbox) : outbox[k].topic # "peers"
        /\ (mqBackend /\ mi > 0) =>
              \A h \in hostsReg :
                  /\ Cardinality(PeerCalls(h)) = 1
                  /\ \A k \in PeerCalls(h) :
                        /\ mop.id \notin outbox[k].peers
                        /\ outbox[k].removed = {mop.id}
                        /\ outbox[k].peers =
                             {n \in NodeIds \ {mop.id} :
                                /\ nodes[n].present /\ HostOf(n) # h
                                /\ NetOf(n) \in HostNets(h, nodes)}

\* C4 witness: the node is still stored, has two peer hosts, and both were
\* delivered the update.
C4_Witness ==
    /\ Announced /\ mop.notify /\ mop.id = "n1"
    /\ nodes["n1"].present
    /\ PeerHosts("n1") = {"h2", "h3"}
    /\ \A h \in PeerHosts("n1") :
         \E k \in PeerCalls(h) : outbox[k].result = "delivered"

\* The steps of PublishMqUpdatesForDeletedNode, in the order of the code.
FullTrail ==
    <<"mark">> \o (IF mop.notify THEN <<"notify">> ELSE <<>>)
               \o <<"bcast">>
               \o (IF dnsMode THEN <<"dns">> ELSE <<>>)

IsPrefix(a, b) == Len(a) <= Len(b) /\ a = SubSeq(b, 1, Len(a))

\* C5: the announcement marks the node, then notifies the owning host if
\* asked to, then broadcasts, then refreshes DNS in DNS mode; it runs all
\* of these steps whatever the notification and the broadcast return, and
\* the notification carries the marked node.
C5_StepsInOrder ==
    mop.op = "delnode" =>
        /\ IsPrefix(trail, FullTrail)
        /\ mpc = "done" => trail = FullTrail
        /\ mpc \notin {"idle", "mark"} =>
              (mnode.pendingDelete /\ mnode.action = "delete")
        /\ \A k \in 1..Len(outbox) :
              outbox[k].topic = "node" =>
                 /\ outbox[k].node.pendingDelete
                 /\ outbox[k].node.action = "delete"
                 /\ PeerCalls(outbox[k].host) \subseteq (k + 1)..Len(outbox)

\* C5 witness: the notification failed, the broadcast returned an error and
\* all four steps ran.
C5_Witness ==
    /\ Announced /\ mop.notify /\ dnsMode
    /\ \E k \in 1..Len(outbox) :
         outbox[k].topic = "node" /\ outbox[k].result = "failed"
    /\ mret = "err"
    /\ trail = <<"mark", "notify", "bcast", "dns">>

TickCalls(t) ==
    LET mine == SelectSeq(outbox, LAMBDA e : e.by = t)
    IN  [k \in 1..Len(mine) |-> mine[k].host]

\* C7 as claimed: every invocation of sendPeers counts as a tick; the 5th
\* resets the counter and publishes to every stored host, the others
\* publish nothing.
C7_EveryInvocationCounts ==
    \A t \in {"k1"} :
        spc[t] = "done" =>
            /\ peer_force_send = (sloc[t].before + 1) % ForceEvery
            /\ TickCalls(t) = IF sloc[t].before + 1 = ForceEvery
                              THEN GetAllHosts ELSE <<>>

\* C7 amended: an invocation whose node read fails returns without counting
\* and publishes nothing; every other invocation counts as one tick.  The
\* 5th of these resets the counter to 0 and calls
\* PublishSingleHostPeerUpdate once for every host its host read returned
\* (none when that read failed); the others publish nothing.
C7_Cadence ==
    /\ peer_force_send \in 0..ForceEvery
    /\ \A t \in {"k1"} :
         spc[t] = "done" =>
            IF ~sloc[t].nodesOk
            THEN /\ peer_force_send = sloc[t].before
                 /\ TickCalls(t) = <<>>
            ELSE /\ peer_force_send = (sloc[t].before + 1) % ForceEvery
                 /\ sloc[t].force <=> (sloc[t].before + 1 = ForceEvery)
                 /\ TickCalls(t) =
                      IF ~sloc[t].force THEN <<>>
                      ELSE IF sloc[t].hostsOk THEN GetAllHosts ELSE <<>>

\* C7 witness: a forced tick has published to all three hosts.
C7_Witness ==
    /\ spc["k1"] = "done" /\ sloc["k1"].force
    /\ sloc["k1"].before = ForceEvery - 1
    /\ peer_force_send = 0
    /\ TickCalls("k1") = <<"h1", "h2", "h3">>

\* C8: a promote of a node that is already an internet gateway is answered
\* 200 "already acting as internet gateway", writes nothing to the
\* registry and starts no goroutine (no failover reset, no broadcast).
C8_IdempotentPromotion ==
    \A p \in Procs :
        (pc[p] = "done" /\ req[p].kind = "promote"
           /\ orig[p].present /\ orig[p].isInetGw)
        => /\ resp[p] = AlreadyResp
           /\ ~wrote[p]
           /\ ~Started(p) /\ ~Broadcast(p)

\* C8 witness: a promote carrying other parameters than the stored ones
\* found the node a gateway.
C8_Witness ==
    \E p \in Procs :
        /\ pc[p] = "done" /\ req[p].kind = "promote"
        /\ orig[p].present /\ orig[p].isInetGw
        /\ orig[p].inetReq = "p1" /\ req[p].body = "p2"
        /\ nodes[req[p].id] = orig[p]

\* C9 as claimed: a demote of a node that is not an internet gateway is
\* answered 200 and stores the attributes it read.
C9_DemoteAlways200 ==
    \A p \in Procs :
        (pc[p] = "done" /\ req[p].kind = "demote"
           /\ orig[p].present /\ ~orig[p].isInetGw)
        => /\ resp[p] = NodeResp(orig[p])
           /\ wrote[p]

\* C9 amended: a demote of a node that is not an internet gateway is
\* answered 200 with the node, or 500 when the node write fails; the
\* attributes it stores are those it read, and demoting the result again
\* gives the same node.
C9_IdempotentDemotion ==
    \A p \in Procs :
        (pc[p] = "done" /\ req[p].kind = "demote" /\ orig[p].present)
        => /\ UnsetInternetGw(node[p]) = node[p]
           /\ ~orig[p].isInetGw =>
                /\ node[p] = orig[p]
                /\ \/ resp[p] = NodeResp(orig[p]) /\ wrote[p]
                   \/ resp[p] = ErrResp(500, "upsert") /\ ~wrote[p]

\* C9 witness: a demote of a non-gateway ingress node was answered 200 and
\* the stored node is the one read.
C9_Witness ==
    \E p \in Procs :
        /\ pc[p] = "done" /\ req[p].kind = "demote"
        /\ orig[p].present /\ ~orig[p].isInetGw /\ orig[p].isGw
        /\ resp[p].status = 200
        /\ nodes[req[p].id] = orig[p]

\* C10 as claimed: a promote of the node of a non-Linux host is answered
\* with a bad-request error, writes nothing and starts no goroutine.
C10_NonLinuxAlwaysBadRequest ==
    \A p \in Procs :
        (pc[p] = "done" /\ req[p].kind = "promote"
           /\ OSOf(HostOf(req[p].id)) # "linux")
        => /\ resp[p].status = 400
           /\ ~wrote[p]
           /\ ~Started(p) /\ ~Broadcast(p)

\* C10 amended: a promote of the node of a non-Linux host is answered with
\* an error, writes nothing and starts no goroutine; the error is a bad
\* request (400) except when the host lookup fails, which is answered 500.
C10_NonLinuxRefused ==
    \A p \in Procs :
        (pc[p] = "done" /\ req[p].kind = "promote"
           /\ OSOf(HostOf(req[p].id)) # "linux")
        => /\ resp[p] \in {ErrResp(400, "params"), ErrResp(400, "decode"),
                           ErrResp(400, "notlinux"), ErrResp(500, "host")}
           /\ ~wrote[p]
           /\ ~Started(p) /\ ~Broadcast(p)

\* C10 witness: a well-formed, valid promote of the stored node of a
\* non-Linux host was refused for the host's class.
C10_Witness ==
    \E p \in Procs :
        /\ pc[p] = "done" /\ req[p].kind = "promote"
        /\ OSOf(HostOf(req[p].id)) # "linux"
        /\ orig[p].present /\ req[p].body = "p1"
        /\ resp[p] = ErrResp(400, "notlinux")

\* C11: an update request whose handler found the node not to be an internet
\* gateway is answered 400, writes no node and starts no goroutine, so no
\* peer broadcast.
C11_UpdateOfNonGatewayRefused ==
    \A p \in Procs :
        (/\ req[p].kind = "update"
         /\ pc[p] \notin {"idle", "read"}
         /\ ~orig[p].isInetGw)
        => /\ pc[p] = "done"
           /\ resp[p].status = 400
           /\ ~wrote[p]
           /\ ~Started(p) /\ ~Broadcast(p)

\* C11: a well-formed, valid update of a stored node that is not a gateway
\* has been refused.
C11_Witness ==
    \E p \in Procs :
        /\ req[p].kind = "update" /\ req[p].body \in {"p1", "p2"}
        /\ pc[p] = "done"
        /\ orig[p].present /\ ~orig[p].isInetGw
        /\ resp[p] = ErrResp(400, "notgw")
        /\ nodes[req[p].id] = orig[p]

\* The hosts PublishSingleHostPeerUpdate was called for by a broadcast, in
\* the order of the calls.
PeerAttempts(by) ==
    LET mine == SelectSeq(outbox, LAMBDA e : e.by = by /\ e.topic = "peers")
    IN  [k \in 1..Len(mine) |-> mine[k].host]

\* The outcomes of those calls.
PeerResults(by) ==
    LET mine == SelectSeq(outbox, LAMBDA e : e.by = by /\ e.topic = "peers")
    IN  [k \in 1..Len(mine) |-> mine[k].result]

\* C12: in PublishPeerUpdate, PublishDeletedNodePeerUpdate and the forced
\* cycle of sendPeers, the calls of PublishSingleHostPeerUpdate made so far
\* are one per host of the host list, in its order, whatever the earlier
\* calls returned; once the loop is left every host of the list has had its
\* call.
C12_EveryHostAttemptedOnce ==
    /\ (mop.op \in {"peers", "delnode"} /\ mi > 0) =>
          /\ mi <= Len(mhosts) + 1
          /\ PeerAttempts("m") = SubSeq(mhosts, 1, mi - 1)
          /\ mret # "none" => PeerAttempts("m") = mhosts
    /\ \A t \in Threads :
          /\ spc[t] = "loop" =>
                PeerAttempts(t) = SubSeq(sloc[t].hosts, 1, sloc[t].i - 1)
          /\ (spc[t] = "done" /\ sloc[t].force) =>
                PeerAttempts(t) = sloc[t].hosts

\* C12 witness: a PublishPeerUpdate and a forced cycle have both ended after
\* the publish to the first of their hosts failed.
C12_Witness ==
    /\ mop.op = "peers" /\ mret # "none"
    /\ Len(mhosts) > 1
    /\ PeerAttempts("m") = mhosts
    /\ PeerResults("m")[1] = "failed"
    /\ spc["k1"] = "done" /\ sloc["k1"].force
    /\ Len(sloc["k1"].hosts) > 1
    /\ PeerAttempts("k1") = sloc["k1"].hosts
    /\ PeerResults("k1")[1] = "failed"

\* What a handler answers and writes as a function of its request, the node
\* ValidateParams returned (NoNode when it failed) and the outcomes of its
\* registry accesses: the publishes are no argument of it.
Reference(r, read, o) ==
    LET keep(rs) == [resp |-> rs, wrote |-> FALSE, node |-> read]
        put(nd)  == IF o.upsert
                    THEN [resp |-> NodeResp(nd), wrote |-> TRUE, node |-> nd]
                    ELSE [resp |-> ErrResp(500, "upsert"), wrote |-> FALSE,
                          node |-> nd]
    IN  IF ~(o.read /\ read.present) THEN keep(ErrResp(400, "params"))
        ELSE CASE r.kind = "promote" ->
                    LET c == CreateChecks(read, r.id, r.body, o.host)
                    IN  IF c = "ok"
                        THEN put(IngressDefault(SetInternetGw(read, r.body)))
                        ELSE keep(CheckResp(c))
               [] r.kind = "update" ->
                    LET c == UpdateChecks(read, r.body)
                    IN  IF c = "ok"
                        THEN put(SetInternetGw(UnsetInternetGw(read), r.body))
                        ELSE keep(CheckResp(c))
               [] r.kind = "demote" -> put(UnsetInternetGw(read))

\* C13: the response of a promote, update or demote request and the node it
\* stores are determined by the request, the node read and the outcomes of
\* the registry accesses; whether the broadcasts it caused succeeded or
\* failed makes no difference, before or after they ran.
C13_PublishOutcomeNotSurfaced ==
    \A p \in Procs :
        LET e == Reference(req[p], orig[p], io[p])
        IN  /\ pc[p] = "done" =>
                 /\ resp[p] = e.resp
                 /\ wrote[p] = e.wrote
                 /\ node[p] = e.node
            /\ resp[p].status # 0 => resp[p] = e.resp
            /\ wrote[p] => (e.wrote /\ node[p] = e.node)

\* C13 witness: two requests of one round were answered 200 with the node;
\* the broadcast of one failed and the broadcast of the other succeeded.
C13_Witness ==
    /\ \A p \in Procs :
         /\ pc[p] = "done" /\ wrote[p]
         /\ resp[p] = NodeResp(node[p])
    /\ \E e \in published : e.origin = "r1" /\ e.err = "err"
    /\ \E e \in published : e.origin = "r2" /\ e.err = "nil"
    /\ \A e \in published : e.origin = "r1" => e.err = "err"
    /\ \A e \in published : e.origin = "r2" => e.err = "nil"

\* The records getExtClientDNS returned for a client that carry a given
\* address, as positions in alldns.
RecordsOf(c, addr) ==
    {k \in 1..Len(alldns) :
        /\ alldns[k].action = "insert"
        /\ alldns[k].name = DNSName(c.clientID, c.network)
        /\ alldns[k].address = addr}

\* C14: when getExtClientDNS has returned after reading the clients, every
\* client of the network has exactly one record with its IPv4 address if it
\* has one, exactly one record with its IPv6 address if it has one, no
\* other record, and no record has an empty address.
C14_OneRecordPerAddress ==
    (dpc = "done" /\ dclients = GetNetworkExtClients(dnet)) =>
        /\ \A i \in 1..Len(dclients) :
             LET c == dclients[i]
                 n4 == IF c.address # "" THEN 1 ELSE 0
                 n6 == IF c.address6 # "" THEN 1 ELSE 0
             IN  /\ c.address # "" =>
                       Cardinality(RecordsOf(c, c.address)) = 1
                 /\ c.address6 # "" =>
                       Cardinality(RecordsOf(c, c.address6)) = 1
                 /\ Cardinality({k \in 1..Len(alldns) :
                       alldns[k].name = DNSName(c.clientID, c.network)})
                      = n4 + n6
        /\ \A k \in 1..Len(alldns) : alldns[k].address # ""

\* C15: when PublishDeletedClientPeerUpdate has returned after running its
\* loop (the backend is the MQ and both registry reads succeeded), every
\* stored host has had exactly one call of PublishSingleHostPeerUpdate, with
\* the deleted client as the deleted clients.
C15_EveryHostToldOfDeletedClient ==
    (mop.op = "delclient" /\ mret # "none" /\ mi > 0) =>
        \A h \in hostsReg :
            /\ Cardinality(PeerCalls(h)) = 1
            /\ \A k \in PeerCalls(h) : outbox[k].clients = {mop.id}

\* A registry read of invocation t has failed: logic.GetAllHosts or
\* logic.GetAllNodes returned an error, or the peer update of a host could
\* not be computed.
ReadsFail(t) ==
    \/ spc[t] \notin {"idle", "hosts"} /\ ~sloc[t].hostsOk
    \/ spc[t] = "done" /\ ~sloc[t].nodesOk
    \/ \E k \in 1..Len(outbox) :
         outbox[k].by = t /\ outbox[k].result = "skipped"

\* The forced cycle of invocation t has handed a full peer update for host h
\* to the broker.
ForcedSent(t, h) ==
    /\ sloc[t].force
    /\ \E k \in 1..Len(outbox) :
         /\ outbox[k].by = t /\ outbox[k].topic = "peers"
         /\ outbox[k].host = h /\ outbox[k].result # "skipped"
         /\ outbox[k].removed = {} /\ outbox[k].clients = {}

\* C16: with the timer firing for ever, if from some tick on the registry
\* reads succeed, every stored host is handed a full peer update by a
\* forced cycle again and again, whatever happened to the updates before.
C16_ForcedResyncRecurs ==
    \A h \in HostIds :
        (<>[](~ReadsFail("k1")) /\ [](h \in hostsReg))
            => []<>ForcedSent("k1", h)

\* C16 witness: a forced cycle has handed a peer update for each of three
\* hosts to the broker, the publish to one of them failing.
C16_Witness ==
    /\ hostsReg = HostIds
    /\ spc["k1"] = "done"
    /\ \A h \in HostIds : ForcedSent("k1", h)
    /\ \E k \in 1..Len(outbox) : outbox[k].result = "failed"

\* C17 as claimed: the counter stays within 0..5 in every reachable state,
\* overlapping invocations of sendPeers included.
C17_CounterInRange == peer_force_send \in 0..ForceEvery

\* C17 amended: as long as no two invocations of sendPeers have run at the
\* same time, the counter stays within 0..5 and is 5 only between the
\* increment and the check of the invocation that forces a cycle.
C17_CounterInRangeWhenSerial ==
    ~overlapped =>
        /\ peer_force_send \in 0..ForceEvery
        /\ peer_force_send = ForceEvery =>
              \E t \in Threads : spc[t] = "check"

\* C17 witness: both goroutines have run sendPeers, one after the other,
\* and the counter is 5 just before the forced cycle resets it.
C17_Witness ==
    /\ ~overlapped
    /\ peer_force_send = ForceEvery
    /\ spc["k2"] = "check" /\ spc["k1"] = "done"

\* C18: during and after PublishMqUpdatesForDeletedNode the caller's node is
\* as it was passed and the registry's nodes are as they were before the
\* call; from the marking on, the copy has pending_delete and action =
\* delete, the node update carries the copy and every peer update lists the
\* node as removed.
C18_OnlyTheCopyIsMarked ==
    mop.op = "delnode" =>
        /\ mcaller = CallerNode(mop.id)
        /\ ~mcaller.pendingDelete /\ mcaller.action = "none"
        /\ nodes = snap
        /\ mpc \notin {"idle", "mark"} =>
              mnode = [mcaller EXCEPT !.pendingDelete = TRUE,
                                      !.action = "delete"]
        /\ \A k \in 1..Len(outbox) :
              /\ outbox[k].topic = "node" => outbox[k].node = mnode
              /\ outbox[k].topic = "peers" => outbox[k].removed = {mop.id}

\* C18 witness: the announcement of a node that is still stored has ended;
\* the node update and a peer update were handed to the broker, and the
\* stored node is not marked.
C18_Witness ==
    /\ Announced
    /\ nodes[mop.id].present /\ ~nodes[mop.id].pendingDelete
    /\ mnode.pendingDelete /\ ~mcaller.pendingDelete
    /\ \E k \in 1..Len(outbox) :
         outbox[k].topic = "node" /\ outbox[k].result = "delivered"
    /\ \E k \in 1..Len(outbox) :
         outbox[k].topic = "peers" /\ outbox[k].result = "delivered"

\* C19: a promote request answered with an error (400 or 500) has written
\* no node and has started no goroutine: none that clears the failover peer
\* of the node's network and none that broadcasts.
C19_FailedPromoteLeavesNoTrace ==
    \A p \in Procs :
        (/\ req[p].kind = "promote" /\ pc[p] = "done"
         /\ resp[p].status \in {400, 500})
        => /\ ~wrote[p]
           /\ ~Started(p)
           /\ ~Broadcast(p)

\* C20: when PublishPeerUpdate or PublishDeletedNodePeerUpdate returns after
\* its loop (both registry reads succeeded), it returns nil for an empty
\* host list and otherwise what the call for the last host of the list
\* returned, whatever the calls for the earlier hosts returned.
C20_ReturnsLastHostsOutcome ==
    (mop.op \in {"peers", "delnode"} /\ mret # "none" /\ mi > 0) =>
        LET results == PeerResults("m")
        IN  /\ Len(results) = Len(mhosts)
            /\ mret = IF Len(mhosts) = 0 THEN "nil"
                      ELSE IF results[Len(mhosts)] = "delivered" THEN "nil"
                      ELSE "err"

\* C20 witness: PublishPeerUpdate returned nil although the publish to the
\* first host of its list failed, the publish to the last one succeeding.
C20_Witness ==
    /\ mop.op = "peers" /\ mret = "nil" /\ mi > 0
    /\ Len(mhosts) > 1
    /\ Len(PeerResults("m")) = Len(mhosts)
    /\ PeerResults("m")[1] = "failed"
    /\ PeerResults("m")[Len(mhosts)] = "delivered"

====
